---------------------------- MODULE Spec2Model ----------------------------
(***************************************************************************)
(* Model of packages/hoppscotch-cli/src/utils/getters.ts:                  *)
(*   - getEffectiveFinalMetaData (the metadata resolver) and             *)
(*     getMetaDataPairs, pure functions checked under SpecMeta;            *)
(*   - getResourceContents (the resource acquirer), an async function      *)
(*     whose awaits (fs.access, axios.get, readJsonFile) are the steps of  *)
(*     a per-call state machine, checked under Spec (one call) and under   *)
(*     SpecConcurrent (two interleaved calls).                             *)
(*                                                                         *)
(* A JavaScript string is modelled as a sequence of tokens; "" is << >>.   *)
(***************************************************************************)
EXTENDS Integers, Sequences, FiniteSets, TLC

VARIABLES
    metaData,          \* argument of getEffectiveFinalMetaData
    environment,       \* argument of getEffectiveFinalMetaData
    pcMeta,            \* "ready" | "resolved" | "paired"
    resolved,          \* the Either returned by getEffectiveFinalMetaData
    pairs,             \* the object returned by getMetaDataPairs
    args,              \* per call: the argument object of getResourceContents
    pc,                \* per call: position in getResourceContents
    fileExistsInPath,  \* per call: local variable (line 161)
    contents,          \* per call: local variable (line 160)
    caught,            \* per call: the value bound to err in catch (line 194)
    outcome,           \* per call: how the returned promise settled
    ops,               \* per call: external operations performed, in order
    replies            \* per call: what each external operation answered

metaVars == <<metaData, environment, pcMeta, resolved, pairs>>
callVars == <<args, pc, fileExistsInPath, contents, caught, outcome, ops, replies>>
vars == <<metaData, environment, pcMeta, resolved, pairs,
          args, pc, fileExistsInPath, contents, caught, outcome, ops, replies>>

----------------------------------------------------------------------------
(* Bounds *)

MaxEntries == 2

----------------------------------------------------------------------------
(* fp-ts helpers *)

Right(x) == [tag |-> "Right", val |-> x]
Left(x) == [tag |-> "Left", val |-> x]
isRight(e) == e.tag = "Right"
isLeft(e) == e.tag = "Left"

\* A one-token string literal
Str(t) == <<t>>

\* The JavaScript value undefined. A string is a sequence (a function on
\* 1..n); this value is a function on {0}, so it differs from every string,
\* the strings "undefined" and "" included.
Undefined == [u \in {0} |-> "undefined"]

\* `${v}` in a template literal: a string as it is, undefined as "undefined"
TemplateStr(v) == IF v = Undefined THEN Str("undefined") ELSE v

\* JavaScript truthiness of a value that is a string or undefined
Truthy(s) == s # Undefined /\ s # << >>

\* S.isEmpty
isEmpty(s) == Len(s) = 0

\* error({ code, data }) of ../types/errors
error(code, data) == [code |-> code, data |-> data]

----------------------------------------------------------------------------
(* The template engine (@hoppscotch/data parseTemplateStringE)             *)

RefTokens == {"{{token}}", "{{missing}}"}

RefName(tok) == IF tok = "{{token}}" THEN "token" ELSE "missing"

HasVar(name, variables) == \E i \in 1..Len(variables) : variables[i].key = name

\* variables.find(x => x.key === name): the first binding wins
FindVar(name, variables) ==
    LET i == CHOOSE j \in 1..Len(variables) :
                 /\ variables[j].key = name
                 /\ \A k \in 1..(j - 1) : variables[k].key # name
    IN variables[i]

RECURSIVE Expand(_, _)
Expand(str, variables) ==
    IF str = << >> THEN << >>
    ELSE LET tok == Head(str)
             rest == Expand(Tail(str), variables)
         IN IF tok \in RefTokens
               THEN FindVar(RefName(tok), variables).value \o rest
               ELSE <<tok>> \o rest

parseTemplateStringE(str, variables) ==
    IF \E i \in 1..Len(str) :
           str[i] \in RefTokens /\ ~HasVar(RefName(str[i]), variables)
       THEN Left("PARSE_FAILURE")
       ELSE Right(Expand(str, variables))

----------------------------------------------------------------------------
(* getEffectiveFinalMetaData                                               *)

\* Mutant: the filter forgets the empty-key test
FilterActive_activeOnly(md) == SelectSeq(md, LAMBDA e : e.active)

\* A.filter(({ key, active }) => !S.isEmpty(key) && active)
FilterActive(md) == SelectSeq(md, LAMBDA e : ~isEmpty(e.key) /\ e.active)

\* A.map(({ key, value }) => ({ active: true, key: parse(key), value: parse(value) }))
ParseEntry(e, env) ==
    [active |-> TRUE,
     key |-> parseTemplateStringE(e.key, env.variables),
     value |-> parseTemplateStringE(e.value, env.variables)]

ParseAll(md, env) == [i \in 1..Len(md) |-> ParseEntry(md[i], env)]

\* Mutant: the predicate looks at the value only
EveryRight_valueOnly(parsed) ==
    \A i \in 1..Len(parsed) : isRight(parsed[i].value)

\* A.every(({ key, value }) => E.isRight(key) && E.isRight(value))
EveryRight(parsed) ==
    \A i \in 1..Len(parsed) : isRight(parsed[i].key) /\ isRight(parsed[i].value)

\* Mutant: the failure carries the failing entries only
FromPredicate_failedOnly(parsed) ==
    IF EveryRight(parsed) THEN Right(parsed)
    ELSE Left(error(Str("PARSING_ERROR"),
                    SelectSeq(parsed, LAMBDA p : ~(isRight(p.key) /\ isRight(p.value)))))

\* E.fromPredicate(A.every(...), (reason) => error({ code: "PARSING_ERROR", data: reason }))
FromPredicate(parsed) ==
    IF EveryRight(parsed) THEN Right(parsed)
    ELSE Left(error(Str("PARSING_ERROR"), parsed))

\* Mutant: the projection builds its list back to front
RECURSIVE FilterMapRights_reversed(_)
FilterMapRights_reversed(parsed) ==
    IF parsed = << >> THEN << >>
    ELSE LET p == Head(parsed)
         IN IF isRight(p.key) /\ isRight(p.value)
               THEN FilterMapRights_reversed(Tail(parsed))
                        \o <<[active |-> TRUE, key |-> p.key.val, value |-> p.value.val]>>
               ELSE FilterMapRights_reversed(Tail(parsed))

\* A.filterMap(... ? O.some({ active: true, key: key.right, value: value.right }) : O.none)
RECURSIVE FilterMapRights(_)
FilterMapRights(parsed) ==
    IF parsed = << >> THEN << >>
    ELSE LET p == Head(parsed)
         IN IF isRight(p.key) /\ isRight(p.value)
               THEN <<[active |-> TRUE, key |-> p.key.val, value |-> p.value.val]>>
                        \o FilterMapRights(Tail(parsed))
               ELSE FilterMapRights(Tail(parsed))

\* E.map(f)
EitherMapFilterMap(e) == IF isRight(e) THEN Right(FilterMapRights(e.val)) ELSE e

getEffectiveFinalMetaData(md, env) ==
    EitherMapFilterMap(FromPredicate(ParseAll(FilterActive(md), env)))

----------------------------------------------------------------------------
(* getMetaDataPairs                                                        *)

\* A.filter(({ active, key }) => active && !S.isEmpty(key))
FilterPairs(md) == SelectSeq(md, LAMBDA e : e.active /\ ~isEmpty(e.key))

\* <Record<string, string>>{}
EmptyObject == [k \in {} |-> << >>]

\* Object.assign(target, { [`${key}`]: value }) copies with [[Set]]. For the
\* key "__proto__" that runs the __proto__ setter inherited from
\* Object.prototype, which ignores a value that is a string: nothing is
\* stored. Every other key becomes (or overwrites) an own property.
Assign(target, key, value) ==
    IF key = Str("__proto__") THEN target
    ELSE [k \in DOMAIN target \cup {key} |-> IF k = key THEN value ELSE target[k]]

\* A.reduce(b, f): left fold
RECURSIVE Reduce(_, _)
Reduce(target, md) ==
    IF md = << >> THEN target
    ELSE Reduce(Assign(target, Head(md).key, Head(md).value), Tail(md))

getMetaDataPairs(md) == Reduce(EmptyObject, FilterPairs(md))

----------------------------------------------------------------------------
(* Inputs of the resolver *)

Keys == {<< >>, <<"X">>, <<"{{token}}">>, <<"{{missing}}">>, <<"__proto__">>}
Values == {<<"v">>, <<"{{token}}">>, <<"{{missing}}">>, <<"v", "{{token}}">>}

Entries == [key : Keys, value : Values, active : BOOLEAN]

BoundedSeqs(S, n) == UNION {[1..k -> S] : k \in 0..n}

MetaDataLists == BoundedSeqs(Entries, MaxEntries)

Environments ==
    {[variables |-> << >>],
     [variables |-> <<[key |-> "token", value |-> <<"abc">>]>>],
     [variables |-> <<[key |-> "token", value |-> <<"abc">>],
                      [key |-> "token", value |-> <<"def">>]>>],
     [variables |-> <<[key |-> "missing", value |-> << >>],
                      [key |-> "token", value |-> <<"a", "b">>]>>]}

NotYet == [tag |-> "none", val |-> << >>]

\* Spec for the resolver: the inputs are drawn in InitMeta, Resolve applies
\* getEffectiveFinalMetaData to them.
Resolve ==
    /\ pcMeta = "ready"
    /\ resolved' = getEffectiveFinalMetaData(metaData, environment)
    /\ pcMeta' = "resolved"
    /\ UNCHANGED <<metaData, environment, pairs, callVars>>

\* GetPairs applies getMetaDataPairs to the same inputs.
GetPairs ==
    /\ pcMeta = "ready"
    /\ pairs' = getMetaDataPairs(metaData)
    /\ pcMeta' = "paired"
    /\ UNCHANGED <<metaData, environment, resolved, callVars>>

----------------------------------------------------------------------------
(* getResourceContents                                                     *)

Calls == {1, 2}

DefaultServerUrl == Str("https://api.hoppscotch.io")

PathOrIds == {Str("./local.json"), Str("abc123")}
AccessTokens == {Undefined, << >>, Str("tok")}
ServerUrls == {Undefined, << >>, Str("http://localhost:3170"),
               <<"http://localhost:3170", "/">>}
ResourceTypes == {"collection", "environment"}

ArgSet == [pathOrId : PathOrIds, accessToken : AccessTokens,
           serverUrl : ServerUrls, resourceType : ResourceTypes]

\* contents = null (line 160)
Null == [shape |-> "null", content |-> "null"]

NoError == [code |-> Undefined, data |-> Undefined]

\* External operations, as logged in ops
AccessOp(path) ==
    [op |-> "fs.access", path |-> path, known |-> FALSE,
     url |-> << >>, auth |-> << >>]
GetOp(url, auth) ==
    [op |-> "axios.get", path |-> << >>, known |-> FALSE,
     url |-> url, auth |-> auth]
ReadOp(path, known) ==
    [op |-> "readJsonFile", path |-> path, known |-> known,
     url |-> << >>, auth |-> << >>]

\* hostname.endsWith("/")
endsWith(s, t) == Len(s) > 0 /\ s[Len(s)] = t

\* lines 172-178
Hostname(a) == IF Truthy(a.serverUrl) THEN a.serverUrl ELSE DefaultServerUrl

Separator(hostname) == IF endsWith(hostname, "/") THEN << >> ELSE Str("/")

ResourcePath(resourceType) ==
    IF resourceType = "collection" THEN Str("collection") ELSE Str("environment")

UrlOf(hostname, resourceType, pathOrId) ==
    hostname \o Separator(hostname) \o Str("v1/access-tokens/")
        \o ResourcePath(resourceType) \o Str("/") \o pathOrId

RequestUrl(a) == UrlOf(Hostname(a), a.resourceType, a.pathOrId)

\* headers: { Authorization: `Bearer ${accessToken}` }
Authorization(a) == Str("Bearer ") \o TemplateStr(a.accessToken)

\* Mutant: the decision ignores the probe
ShouldFetch_ignoreProbe(a, exists) == Truthy(a.accessToken)

\* Mutant: the decision ignores the access token
ShouldFetch_ignoreToken(a, exists) == ~exists

\* if (accessToken && !fileExistsInPath) (line 170)
ShouldFetch(a, exists) == Truthy(a.accessToken) /\ ~exists

----------------------------------------------------------------------------
(* What the external systems can answer *)

\* fs.access resolves ("ok") or rejects with some error
ProbeResults == {"ok", "ENOENT", "EACCES", "EIO"}

Payloads == [wellFormed : BOOLEAN, content : {"c1", "c2"}]

ContentTypes == {Str("application/json"),
                 <<"application/json", "; charset=utf-8">>,
                 Str("text/html"), Undefined}

\* An error value as the catch block reads it: code, message,
\* response?.status (0 when there is no response), response?.data?.reason
Err(code, message, status, reason) ==
    [code |-> code, message |-> message, status |-> status, reason |-> reason]

NoErr == Err(Undefined, Undefined, 0, Undefined)

\* Errors axios.get rejects with: without a response (network level)
NetworkErrors ==
    {Err(Str(c), Str("network error"), 0, Undefined) :
        c \in {"ECONNREFUSED", "ERR_INVALID_URL", "ENOTFOUND", "ETIMEDOUT"}}

Reasons == {Undefined, << >>, Str("TOKEN_EXPIRED"), Str("TOKEN_INVALID"),
            Str("INVALID_ID")}

\* and with a response (HTTP status outside 2xx)
HttpErrors ==
    {Err(Str(IF st < 500 THEN "ERR_BAD_REQUEST" ELSE "ERR_BAD_RESPONSE"),
         Str("Request failed"), st, rs) : st \in {400, 404, 500}, rs \in Reasons}

AxiosResults ==
    [kind : {"resolved"}, contentType : ContentTypes, data : Payloads,
     err : {NoErr}]
    \cup [kind : {"rejected"}, contentType : {Undefined},
          data : {[wellFormed |-> FALSE, content |-> "c1"]},
          err : NetworkErrors \cup HttpErrors]

\* headers["content-type"].includes("application/json")
includes(s, t) == \E i \in 1..Len(s) : s[i] = t

\* transformWorkspaceCollection / transformWorkspaceEnvironment
transformWorkspaceCollection(data) ==
    [shape |-> "HoppCollection", content |-> data.content]
transformWorkspaceEnvironment(data) ==
    [shape |-> "Environment", content |-> data.content]
TransformThrows(data) == ~data.wellFormed

\* Mutant: the collection transformer is applied whatever the resource type
Transform_alwaysCollection(resourceType, data) ==
    transformWorkspaceCollection(data)

\* lines 190-193
Transform(resourceType, data) ==
    IF resourceType = "collection" THEN transformWorkspaceCollection(data)
    ELSE transformWorkspaceEnvironment(data)

\* readJsonFile settles with a document or rejects
FileDocs == {[shape |-> "HoppCollection", content |-> "f1"],
             [shape |-> "Environment", content |-> "f2"]}

ReadResults ==
    [kind : {"resolved"}, doc : FileDocs, err : {NoError}]
    \cup [kind : {"rejected"}, doc : {Null},
          err : {error(Str("FILE_NOT_FOUND"), Undefined),
                 error(Str("UNKNOWN_ERROR"), Undefined)}]

----------------------------------------------------------------------------
(* The try block (lines 180-193) once axios.get has settled with r:        *)
(* the error it throws (NoErr if none) and the value assigned to contents  *)

TryThrown(a, r) ==
    IF r.kind = "rejected" THEN r.err
    ELSE IF r.contentType = Undefined
        \* headers["content-type"] is undefined: .includes raises a TypeError
        THEN Err(Undefined, Str("Cannot read properties of undefined"), 0, Undefined)
    ELSE IF ~includes(r.contentType, "application/json")
        THEN Err(Undefined, Str("INVALID_CONTENT_TYPE"), 0, Undefined)
    ELSE IF TransformThrows(r.data)
        THEN Err(Undefined, Str("transform failed"), 0, Undefined)
    ELSE NoErr

\* The catch block (lines 194-225): the error it throws, NoError if it
\* throws nothing
IsConnRefused(e) == e.code = Str("ECONNREFUSED")

IsInvalidServerUrl(e) ==
    \/ e.message = Str("INVALID_CONTENT_TYPE")
    \/ e.code = Str("ERR_INVALID_URL")
    \/ e.code = Str("ENOTFOUND")
    \/ e.status = 404

\* Mutant: the data is the resource identifier for every reason
ReasonData_alwaysId(errReason, a) == a.pathOrId

ReasonData(errReason, a) ==
    IF errReason \in {Str("TOKEN_EXPIRED"), Str("TOKEN_INVALID")}
    THEN a.accessToken ELSE a.pathOrId

\* Mutant: an error of no known shape is raised instead of swallowed
Classify_raiseUnknown(e, a) ==
    IF IsConnRefused(e)
        THEN error(Str("SERVER_CONNECTION_REFUSED"), a.serverUrl)
    ELSE IF IsInvalidServerUrl(e)
        THEN error(Str("INVALID_SERVER_URL"), a.serverUrl)
    ELSE IF Truthy(e.reason)
        THEN error(e.reason, ReasonData(e.reason, a))
    ELSE error(Str("UNKNOWN_ERROR"), a.pathOrId)

\* Mutant: a refused connection is not rethrown, so the call goes on to the
\* local file
Classify_swallowRefused(e, a) ==
    IF IsConnRefused(e)
        THEN NoError
    ELSE IF IsInvalidServerUrl(e)
        THEN error(Str("INVALID_SERVER_URL"), a.serverUrl)
    ELSE IF Truthy(e.reason)
        THEN error(e.reason, ReasonData(e.reason, a))
    ELSE NoError

\* Mutant: the payload reason is looked at before the INVALID_SERVER_URL
\* triggers
Classify_reasonFirst(e, a) ==
    IF IsConnRefused(e)
        THEN error(Str("SERVER_CONNECTION_REFUSED"), a.serverUrl)
    ELSE IF Truthy(e.reason)
        THEN error(e.reason, ReasonData(e.reason, a))
    ELSE IF IsInvalidServerUrl(e)
        THEN error(Str("INVALID_SERVER_URL"), a.serverUrl)
    ELSE NoError

Classify(e, a) ==
    IF IsConnRefused(e)
        THEN error(Str("SERVER_CONNECTION_REFUSED"), a.serverUrl)
    ELSE IF IsInvalidServerUrl(e)
        THEN error(Str("INVALID_SERVER_URL"), a.serverUrl)
    ELSE IF Truthy(e.reason)
        THEN error(e.reason, ReasonData(e.reason, a))
    ELSE NoError

NoFetch == [kind |-> "none", contentType |-> Undefined,
            data |-> [wellFormed |-> FALSE, content |-> "c1"], err |-> NoErr]
NoRead == [kind |-> "none", doc |-> Null, err |-> NoError]
NoReplies == [probe |-> "none", fetch |-> NoFetch, read |-> NoRead]

Pending == [kind |-> "pending", doc |-> Null, err |-> NoError]
Returned(doc) == [kind |-> "returned", doc |-> doc, err |-> NoError]
Thrown(e) == [kind |-> "thrown", doc |-> Null, err |-> e]

\* Mutant: only a missing file counts as "does not exist"; any other probe
\* error is taken for a file that exists
ProbeExists_unlessENOENT(r) == r # "ENOENT"

\* try { await fs.access(pathOrId); fileExistsInPath = true }
\* catch (e) { fileExistsInPath = false }  (lines 163-168)
ProbeExists(r) == r = "ok"

\* Mutant: the fallback test is dropped, contents is returned as it is
NeedsFallback_never(got) == FALSE

\* if (contents === null) (line 229)
NeedsFallback(got) == got = Null

----------------------------------------------------------------------------
(* Steps of one call: from one await to the next                           *)

\* Mutant: contents and fileExistsInPath live outside the function, so a
\* new call resets them for every call in flight
Start_sharedLocals(c) ==
    /\ pc[c] = "ready"
    /\ contents' = [d \in Calls |-> Null]
    /\ fileExistsInPath' = [d \in Calls |-> FALSE]
    /\ ops' = [ops EXCEPT ![c] = Append(@, AccessOp(args[c].pathOrId))]
    /\ pc' = [pc EXCEPT ![c] = "probing"]
    /\ UNCHANGED <<args, caught, outcome, replies, metaVars>>

\* The call is made: lines 160-164, up to await fs.access(pathOrId)
Start(c) ==
    /\ pc[c] = "ready"
    /\ contents' = [contents EXCEPT ![c] = Null]
    /\ fileExistsInPath' = [fileExistsInPath EXCEPT ![c] = FALSE]
    /\ ops' = [ops EXCEPT ![c] = Append(@, AccessOp(args[c].pathOrId))]
    /\ pc' = [pc EXCEPT ![c] = "probing"]
    /\ UNCHANGED <<args, caught, outcome, replies, metaVars>>

\* fs.access settles: lines 165-184 or 165-170 and 229-230
ProbeSettles(c) ==
    /\ pc[c] = "probing"
    /\ \E r \in ProbeResults :
         LET exists == ProbeExists(r)
             a == args[c]
         IN /\ replies' = [replies EXCEPT ![c].probe = r]
            /\ fileExistsInPath' = [fileExistsInPath EXCEPT ![c] = exists]
            /\ IF ShouldFetch(a, exists)
                  THEN /\ ops' = [ops EXCEPT ![c] =
                                    Append(@, GetOp(RequestUrl(a), Authorization(a)))]
                       /\ pc' = [pc EXCEPT ![c] = "fetching"]
                  ELSE /\ ops' = [ops EXCEPT ![c] =
                                    Append(@, ReadOp(a.pathOrId, exists))]
                       /\ pc' = [pc EXCEPT ![c] = "reading"]
    /\ UNCHANGED <<args, contents, caught, outcome, metaVars>>

\* Mutant: an error of no classified shape makes the call send the GET again
FetchSettles_retry(c) ==
    /\ pc[c] = "fetching"
    /\ \E r \in AxiosResults :
         LET a == args[c]
             thrown == TryThrown(a, r)
             raised == Classify(thrown, a)
             got == IF thrown = NoErr THEN Transform(a.resourceType, r.data)
                    ELSE contents[c]
         IN /\ replies' = [replies EXCEPT ![c].fetch = r]
            /\ caught' = [caught EXCEPT ![c] = thrown]
            /\ contents' = [contents EXCEPT ![c] = got]
            /\ IF thrown # NoErr /\ raised # NoError
                  THEN /\ outcome' = [outcome EXCEPT ![c] = Thrown(raised)]
                       /\ pc' = [pc EXCEPT ![c] = "done"]
                       /\ ops' = ops
               ELSE IF NeedsFallback(got)
                  THEN /\ ops' = [ops EXCEPT ![c] =
                                    Append(@, GetOp(RequestUrl(a), Authorization(a)))]
                       /\ pc' = [pc EXCEPT ![c] = "fetching"]
                       /\ outcome' = outcome
               ELSE /\ outcome' = [outcome EXCEPT ![c] = Returned(got)]
                    /\ pc' = [pc EXCEPT ![c] = "done"]
                    /\ ops' = ops
    /\ UNCHANGED <<args, fileExistsInPath, metaVars>>

\* axios.get settles: lines 186-233
FetchSettles(c) ==
    /\ pc[c] = "fetching"
    /\ \E r \in AxiosResults :
         LET a == args[c]
             thrown == TryThrown(a, r)
             raised == Classify(thrown, a)
             got == IF thrown = NoErr THEN Transform(a.resourceType, r.data)
                    ELSE contents[c]
         IN /\ replies' = [replies EXCEPT ![c].fetch = r]
            /\ caught' = [caught EXCEPT ![c] = thrown]
            /\ contents' = [contents EXCEPT ![c] = got]
            /\ IF thrown # NoErr /\ raised # NoError
                  THEN /\ outcome' = [outcome EXCEPT ![c] = Thrown(raised)]
                       /\ pc' = [pc EXCEPT ![c] = "done"]
                       /\ ops' = ops
               ELSE IF NeedsFallback(got)
                  THEN /\ ops' = [ops EXCEPT ![c] =
                                    Append(@, ReadOp(a.pathOrId, fileExistsInPath[c]))]
                       /\ pc' = [pc EXCEPT ![c] = "reading"]
                       /\ outcome' = outcome
               ELSE /\ outcome' = [outcome EXCEPT ![c] = Returned(got)]
                    /\ pc' = [pc EXCEPT ![c] = "done"]
                    /\ ops' = ops
    /\ UNCHANGED <<args, fileExistsInPath, metaVars>>

\* readJsonFile settles: lines 230-233
ReadSettles(c) ==
    /\ pc[c] = "reading"
    /\ \E r \in ReadResults :
         /\ replies' = [replies EXCEPT ![c].read = r]
         /\ IF r.kind = "resolved"
               THEN /\ contents' = [contents EXCEPT ![c] = r.doc]
                    /\ outcome' = [outcome EXCEPT ![c] = Returned(r.doc)]
               ELSE /\ contents' = contents
                    /\ outcome' = [outcome EXCEPT ![c] = Thrown(r.err)]
    /\ pc' = [pc EXCEPT ![c] = "done"]
    /\ UNCHANGED <<args, fileExistsInPath, caught, ops, metaVars>>

----------------------------------------------------------------------------
(* Specifications *)

IdleArgs == [pathOrId |-> Str("abc123"), accessToken |-> Undefined,
             serverUrl |-> Undefined, resourceType |-> "collection"]

CallsIdle ==
    /\ args = [c \in Calls |-> IdleArgs]
    /\ pc = [c \in Calls |-> "idle"]
    /\ fileExistsInPath = [c \in Calls |-> FALSE]
    /\ contents = [c \in Calls |-> Null]
    /\ caught = [c \in Calls |-> NoErr]
    /\ outcome = [c \in Calls |-> Pending]
    /\ ops = [c \in Calls |-> << >>]
    /\ replies = [c \in Calls |-> NoReplies]

MetaIdle ==
    /\ metaData = << >>
    /\ environment = [variables |-> << >>]
    /\ pcMeta = "idle"
    /\ resolved = NotYet
    /\ pairs = EmptyObject

\* One call of getEffectiveFinalMetaData or getMetaDataPairs on bounded inputs
InitMeta ==
    /\ metaData \in MetaDataLists
    /\ environment \in Environments
    /\ pcMeta = "ready"
    /\ resolved = NotYet
    /\ pairs = EmptyObject
    /\ CallsIdle

NextMeta == Resolve \/ GetPairs

SpecMeta == InitMeta /\ [][NextMeta]_vars

\* One call of getResourceContents (call 1)
Init ==
    /\ MetaIdle
    /\ \E a \in ArgSet : args = [c \in Calls |-> IF c = 1 THEN a ELSE IdleArgs]
    /\ pc = [c \in Calls |-> IF c = 1 THEN "ready" ELSE "idle"]
    /\ fileExistsInPath = [c \in Calls |-> FALSE]
    /\ contents = [c \in Calls |-> Null]
    /\ caught = [c \in Calls |-> NoErr]
    /\ outcome = [c \in Calls |-> Pending]
    /\ ops = [c \in Calls |-> << >>]
    /\ replies = [c \in Calls |-> NoReplies]

Next ==
    \E c \in Calls :
        \/ Start(c)
        \/ ProbeSettles(c)
        \/ FetchSettles(c)
        \/ ReadSettles(c)

Spec == Init /\ [][Next]_vars

\* Two calls of getResourceContents in flight together, interleaved at their
\* awaits in every order
ConcurrentArgs ==
    {a \in ArgSet : /\ a.serverUrl = Str("http://localhost:3170")
                    /\ a.resourceType = "collection"
                    /\ a.accessToken # << >>}

InitConcurrent ==
    /\ MetaIdle
    /\ args \in [Calls -> ConcurrentArgs]
    /\ pc = [c \in Calls |-> "ready"]
    /\ fileExistsInPath = [c \in Calls |-> FALSE]
    /\ contents = [c \in Calls |-> Null]
    /\ caught = [c \in Calls |-> NoErr]
    /\ outcome = [c \in Calls |-> Pending]
    /\ ops = [c \in Calls |-> << >>]
    /\ replies = [c \in Calls |-> NoReplies]

SpecConcurrent == InitConcurrent /\ [][Next]_vars

----------------------------------------------------------------------------
(* Properties of getEffectiveFinalMetaData (checked under SpecMeta)        *)

\* The entries that are active and have a non-empty key, in input order
RECURSIVE Survivors(_)
Survivors(md) ==
    IF md = << >> THEN << >>
    ELSE IF Head(md).active /\ Head(md).key # << >>
        THEN <<Head(md)>> \o Survivors(Tail(md))
        ELSE Survivors(Tail(md))

KeyFails(e, env) == isLeft(parseTemplateStringE(e.key, env.variables))
ValueFails(e, env) == isLeft(parseTemplateStringE(e.value, env.variables))
EntryFails(e, env) == KeyFails(e, env) \/ ValueFails(e, env)

SomeSurvivorFails ==
    \E i \in 1..Len(metaData) :
        /\ metaData[i].active
        /\ metaData[i].key # << >>
        /\ EntryFails(metaData[i], environment)

\* The per-entry outcome record of one entry
OutcomeRecord(e, env) ==
    [active |-> TRUE,
     key |-> parseTemplateStringE(e.key, env.variables),
     value |-> parseTemplateStringE(e.value, env.variables)]

\* The list a result carries: the output on success, the error data on failure
PayloadOf(res) == IF isRight(res) THEN res.val ELSE res.val.data

\* C2 (all-or-nothing): if a surviving entry has a failing key or value
\* substitution, the result is a Left with code PARSING_ERROR, never a
\* success list.
C2_AllOrNothing ==
    (pcMeta = "resolved" /\ SomeSurvivorFails)
        => /\ isLeft(resolved)
           /\ resolved.val.code = Str("PARSING_ERROR")

\* C2 witness: two surviving entries, the first parses, the second has a
\* failing key and a succeeding value, and the call has failed.
C2_Witness ==
    /\ pcMeta = "resolved"
    /\ Len(metaData) = 2
    /\ Survivors(metaData) = metaData
    /\ ~EntryFails(metaData[1], environment)
    /\ KeyFails(metaData[2], environment)
    /\ ~ValueFails(metaData[2], environment)
    /\ isLeft(resolved)

\* C3 (filter invariant): inactive and empty-key entries contribute nothing:
\* the result carries one element per surviving entry, it is the result of
\* the call on the list without the excluded entries, and the call succeeds
\* whenever every surviving entry parses, whatever the excluded entries hold.
C3_FilterInvariant ==
    pcMeta = "resolved"
        => /\ Len(PayloadOf(resolved)) = Len(Survivors(metaData))
           /\ resolved = getEffectiveFinalMetaData(Survivors(metaData), environment)
           /\ (~SomeSurvivorFails => isRight(resolved))

\* C3 witness: an inactive entry and an empty-key entry whose templates fail
\* are filtered out of a successful call.
C3_Witness ==
    /\ pcMeta = "resolved"
    /\ Len(metaData) = 2
    /\ ~metaData[1].active /\ metaData[1].key # << >>
    /\ EntryFails(metaData[1], environment)
    /\ metaData[2].active /\ metaData[2].key = << >>
    /\ ValueFails(metaData[2], environment)
    /\ resolved = Right(<< >>)

\* C4 (aggregated failure): on failure the error data holds one outcome
\* record per surviving entry, in input order, successes included.
C4_AggregatedFailure ==
    (pcMeta = "resolved" /\ isLeft(resolved))
        => LET sv == Survivors(metaData)
               d == resolved.val.data
           IN /\ resolved.val.code = Str("PARSING_ERROR")
              /\ Len(d) = Len(sv)
              /\ \A i \in 1..Len(sv) : d[i] = OutcomeRecord(sv[i], environment)

\* C4 witness: a failure whose data holds the failing first entry and the
\* fully parsed second entry.
C4_Witness ==
    /\ pcMeta = "resolved"
    /\ isLeft(resolved)
    /\ Len(resolved.val.data) = 2
    /\ isLeft(resolved.val.data[1].value)
    /\ isRight(resolved.val.data[2].key)
    /\ isRight(resolved.val.data[2].value)

\* C5 (success output): when every surviving entry parses, the result is a
\* Right list with one element {active: true, key, value} per surviving
\* entry, substituted, in input order.
C5_SuccessOutput ==
    (pcMeta = "resolved" /\ ~SomeSurvivorFails)
        => LET sv == Survivors(metaData)
           IN /\ isRight(resolved)
              /\ Len(resolved.val) = Len(sv)
              /\ \A i \in 1..Len(sv) :
                    resolved.val[i] =
                        [active |-> TRUE,
                         key |-> parseTemplateStringE(sv[i].key, environment.variables).val,
                         value |-> parseTemplateStringE(sv[i].value, environment.variables).val]

\* C5 witness: key "X" with value "{{token}}" under token = "abc" resolves to
\* {X, abc}, followed by a second, different resolved entry.
C5_Witness ==
    /\ pcMeta = "resolved"
    /\ isRight(resolved)
    /\ Len(resolved.val) = 2
    /\ metaData[1].value = Str("{{token}}")
    /\ resolved.val[1] = [active |-> TRUE, key |-> Str("X"), value |-> Str("abc")]
    /\ resolved.val[2] # resolved.val[1]

----------------------------------------------------------------------------
(* Properties of getResourceContents (checked under Spec)                  *)

HasGet(c) == \E i \in 1..Len(ops[c]) : ops[c][i].op = "axios.get"

\* How the call settles when readJsonFile settled with r
ReadOutcome(r) == IF r.kind = "resolved" THEN Returned(r.doc) ELSE Thrown(r.err)

\* The request went to the server URL u: u is a string and the URL requested
\* is the one built on u
SentTo(c, u) ==
    /\ u # Undefined
    /\ Len(ops[c]) >= 2
    /\ ops[c][2].op = "axios.get"
    /\ ops[c][2].url = UrlOf(u, args[c].resourceType, args[c].pathOrId)

\* C1 (probe precedence): once the probe has succeeded no network request is
\* issued, whatever accessToken and serverUrl are; the only operation after
\* the probe is readJsonFile(pathOrId, true) and its outcome is the call's.
C1_ProbePrecedence ==
    \A c \in Calls :
        replies[c].probe = "ok"
            => /\ ~HasGet(c)
               /\ pc[c] \in {"reading", "done"}
               /\ ops[c] = <<AccessOp(args[c].pathOrId),
                             ReadOp(args[c].pathOrId, TRUE)>>
               /\ (pc[c] = "done" => outcome[c] = ReadOutcome(replies[c].read))

\* C1 witness: a call with an access token and a server URL whose probe
\* succeeded has returned the document read from the file.
C1_Witness ==
    \E c \in Calls :
        /\ replies[c].probe = "ok"
        /\ args[c].accessToken = Str("tok")
        /\ Truthy(args[c].serverUrl)
        /\ pc[c] = "done"
        /\ outcome[c].kind = "returned"
        /\ outcome[c].doc = replies[c].read.doc

\* C6 (connection refused), as claimed: when axios.get fails with
\* ECONNREFUSED the call fails with SERVER_CONNECTION_REFUSED and the data is
\* the server URL the request was sent to, serverUrl supplied or not.
C6_ConnectionRefused ==
    \A c \in Calls :
        (/\ pc[c] = "done"
         /\ replies[c].fetch.kind = "rejected"
         /\ replies[c].fetch.err.code = Str("ECONNREFUSED"))
            => /\ outcome[c].kind = "thrown"
               /\ outcome[c].err.code = Str("SERVER_CONNECTION_REFUSED")
               /\ SentTo(c, outcome[c].err.data)

\* The remote fetch failed in one of the ways C7 lists
InvalidUrlTrigger(r) ==
    \/ /\ r.kind = "rejected"
       /\ \/ r.err.code \in {Str("ERR_INVALID_URL"), Str("ENOTFOUND")}
          \/ r.err.status = 404
    \/ /\ r.kind = "resolved"
       /\ r.contentType # Undefined
       /\ ~includes(r.contentType, "application/json")

\* C7 (invalid server URL), as claimed: a malformed URL, a DNS failure, a
\* non-JSON content type or a 404 fails the call with INVALID_SERVER_URL and
\* the data is the server URL; no document is returned.
C7_InvalidServerUrl ==
    \A c \in Calls :
        (pc[c] \in {"reading", "done"} /\ InvalidUrlTrigger(replies[c].fetch))
            => /\ outcome[c].kind = "thrown"
               /\ outcome[c].err.code = Str("INVALID_SERVER_URL")
               /\ SentTo(c, outcome[c].err.data)

TokenReasons == {Str("TOKEN_EXPIRED"), Str("TOKEN_INVALID")}

\* The error the structured reason rs stands for
ReasonError(c, rs) ==
    error(rs, IF rs \in TokenReasons THEN args[c].accessToken ELSE args[c].pathOrId)

\* C8 (structured reason), as claimed: whenever the error payload carries a
\* reason, the call fails with that reason as code and the access token
\* (token reasons) or pathOrId (other reasons) as data.
C8_StructuredReason ==
    \A c \in Calls :
        (/\ pc[c] \in {"reading", "done"}
         /\ replies[c].fetch.kind = "rejected"
         /\ replies[c].fetch.err.reason # Undefined)
            => outcome[c] = Thrown(ReasonError(c, replies[c].fetch.err.reason))

\* C8 amended: the same, when the reason is truthy and none of the earlier
\* triggers holds (not ECONNREFUSED, not ERR_INVALID_URL, not ENOTFOUND, not
\* INVALID_CONTENT_TYPE, status not 404).
C8_StructuredReasonAmended ==
    \A c \in Calls :
        (/\ pc[c] \in {"reading", "done"}
         /\ replies[c].fetch.kind = "rejected"
         /\ replies[c].fetch.err.reason \notin {Undefined, << >>}
         /\ replies[c].fetch.err.status # 404
         /\ replies[c].fetch.err.message # Str("INVALID_CONTENT_TYPE")
         /\ replies[c].fetch.err.code \notin
               {Str("ECONNREFUSED"), Str("ERR_INVALID_URL"), Str("ENOTFOUND")})
            => /\ pc[c] = "done"
               /\ outcome[c] = Thrown(ReasonError(c, replies[c].fetch.err.reason))

\* C8 witness: the remote answered 400 with reason TOKEN_EXPIRED and the call
\* failed with code TOKEN_EXPIRED and the access token as data.
C8_Witness ==
    \E c \in Calls :
        /\ pc[c] = "done"
        /\ replies[c].fetch.kind = "rejected"
        /\ replies[c].fetch.err.status = 400
        /\ replies[c].fetch.err.reason = Str("TOKEN_EXPIRED")
        /\ outcome[c] = Thrown(error(Str("TOKEN_EXPIRED"), Str("tok")))

\* The error caught at line 194 has none of the classified shapes
Unclassified(e) ==
    /\ e # NoErr
    /\ e.code \notin {Str("ECONNREFUSED"), Str("ERR_INVALID_URL"), Str("ENOTFOUND")}
    /\ e.message # Str("INVALID_CONTENT_TYPE")
    /\ e.status # 404
    /\ e.reason = Undefined

\* The transformer raised: the GET resolved with a JSON content type and a
\* payload the transformer does not accept
TransformerRaised(r) ==
    /\ r.kind = "resolved"
    /\ r.contentType # Undefined
    /\ includes(r.contentType, "application/json")
    /\ ~r.data.wellFormed

\* C9 (unclassified fallback): when the fetch step fails with an error of no
\* classified shape (an exception of the transformer included), the call
\* raises nothing of its own and goes on to readJsonFile(pathOrId, false),
\* whose outcome is the call's.
C9_UnclassifiedFallback ==
    \A c \in Calls :
        (/\ pc[c] \in {"reading", "done"}
         /\ \/ Unclassified(caught[c])
            \/ TransformerRaised(replies[c].fetch))
            => /\ ops[c] = <<AccessOp(args[c].pathOrId),
                             GetOp(RequestUrl(args[c]), Authorization(args[c])),
                             ReadOp(args[c].pathOrId, FALSE)>>
               /\ (pc[c] = "reading" => outcome[c] = Pending)
               /\ (pc[c] = "done" => outcome[c] = ReadOutcome(replies[c].read))

\* C9 witness: the transformer raised and the call returned the document
\* read from the local file.
C9_Witness ==
    \E c \in Calls :
        /\ TransformerRaised(replies[c].fetch)
        /\ Unclassified(caught[c])
        /\ pc[c] = "done"
        /\ outcome[c].kind = "returned"
        /\ outcome[c].doc = replies[c].read.doc

\* C10 (decision without token): without an access token no network request
\* is issued whatever the probe found; readJsonFile is called once, with
\* pathOrId and knownToExist = (the probe succeeded), and its outcome is the
\* call's.
C10_NoToken ==
    \A c \in Calls :
        ~Truthy(args[c].accessToken)
            => /\ ~HasGet(c)
               /\ (pc[c] \in {"reading", "done"}
                     => ops[c] = <<AccessOp(args[c].pathOrId),
                                   ReadOp(args[c].pathOrId, replies[c].probe = "ok")>>)
               /\ (pc[c] = "done" => outcome[c] = ReadOutcome(replies[c].read))

\* C10 witness: a call without a token whose probe failed has called
\* readJsonFile(pathOrId, false) and failed with the reader's error.
C10_Witness ==
    \E c \in Calls :
        /\ args[c].accessToken = Undefined
        /\ replies[c].probe = "ENOENT"
        /\ pc[c] = "done"
        /\ ops[c][2] = ReadOp(args[c].pathOrId, FALSE)
        /\ outcome[c] = Thrown(replies[c].read.err)

\* C11 (never null): a call that returns normally returns a document, the
\* transformer's result or the file reader's result, never the initial null
\* of contents; every other finished call ends in a raised error.
C11_NeverNull ==
    \A c \in Calls :
        /\ pc[c] = "done" => outcome[c].kind \in {"returned", "thrown"}
        /\ outcome[c].kind = "thrown" => outcome[c].err # NoError
        /\ outcome[c].kind = "returned"
              => /\ outcome[c].doc # Null
                 /\ \/ /\ replies[c].fetch.kind = "resolved"
                       /\ replies[c].read.kind = "none"
                       /\ outcome[c].doc =
                             Transform(args[c].resourceType, replies[c].fetch.data)
                    \/ /\ replies[c].read.kind = "resolved"
                       /\ outcome[c].doc = replies[c].read.doc

\* C11 witness: the remote fetch timed out (no classified shape), contents
\* was still null at line 229, and the call returned the reader's document.
C11_Witness ==
    \E c \in Calls :
        /\ pc[c] = "done"
        /\ caught[c].code = Str("ETIMEDOUT")
        /\ outcome[c].kind = "returned"
        /\ outcome[c].doc \in FileDocs

----------------------------------------------------------------------------
(* Properties of getMetaDataPairs (checked under SpecMeta)                 *)

\* The positions of the active entries with a non-empty key
ActiveAt(md) == {i \in 1..Len(md) : md[i].active /\ md[i].key # << >>}

\* The last active position carrying key k
LastActiveAt(md, k) ==
    CHOOSE i \in ActiveAt(md) :
        /\ md[i].key = k
        /\ \A j \in ActiveAt(md) : md[j].key = k => j <= i

\* C12 (last-write-wins map), as claimed: the key set of the result is the set of keys
\* of the active, non-empty-key entries, and each key maps to the value of
\* the last active entry carrying it; inactive entries add and overwrite
\* nothing.
C12_LastWriteWins ==
    pcMeta = "paired"
        => /\ DOMAIN pairs = {metaData[i].key : i \in ActiveAt(metaData)}
           /\ \A k \in DOMAIN pairs :
                 pairs[k] = metaData[LastActiveAt(metaData, k)].value

----------------------------------------------------------------------------
(* Properties of concurrent calls (checked under SpecConcurrent)           *)

\* Everything one call owns
CallState(c) ==
    <<args[c], pc[c], fileExistsInPath[c], contents[c], caught[c],
      outcome[c], ops[c], replies[c]>>

\* A step belongs to one call and leaves the state of every other call alone
OneCallSteps ==
    \E c \in Calls : \A d \in Calls \ {c} : CallState(d)' = CallState(d)

\* Two calls at the same position with the same arguments and the same
\* answers to their own operations have done the same operations and have
\* the same locals and outcome
OwnInputsDecide ==
    \A c, d \in Calls :
        (args[c] = args[d] /\ pc[c] = pc[d] /\ replies[c] = replies[d])
            => /\ ops[c] = ops[d]
               /\ outcome[c] = outcome[d]
               /\ contents[c] = contents[d]
               /\ fileExistsInPath[c] = fileExistsInPath[d]

\* C13 (independence of concurrent calls): under every interleaving of two
\* calls at their awaits, each step changes the state of one call only, and
\* a call's operations and outcome are determined by its own arguments and
\* the answers to its own operations.
C13_Independence == []OwnInputsDecide /\ [][OneCallSteps]_vars

\* C13 witness: two calls with the same arguments are interleaved; one has
\* already returned a document read from the file while the other, whose
\* probe failed, is still waiting for its GET.
C13_Witness ==
    \E c, d \in Calls :
        /\ c # d
        /\ args[c] = args[d]
        /\ pc[c] = "fetching"
        /\ pc[d] = "done"
        /\ fileExistsInPath[d]
        /\ outcome[d].kind = "returned"

----------------------------------------------------------------------------
(* Order of the external operations (checked under Spec)                   *)

\* The names of the operations a call has performed, in order
OpNames(c) == [i \in 1..Len(ops[c]) |-> ops[c][i].op]

HasRead(c) == \E i \in 1..Len(ops[c]) : ops[c][i].op = "readJsonFile"

\* C15 (operation ordering): the probe is the first operation and happens
\* once; the GET happens at most once and only after the probe has settled;
\* readJsonFile is called at most once, after the probe and, when a GET was
\* sent, after the GET has settled; nothing is repeated.
C15_OperationOrdering ==
    \A c \in Calls :
        /\ OpNames(c) \in {<< >>,
                           <<"fs.access">>,
                           <<"fs.access", "axios.get">>,
                           <<"fs.access", "readJsonFile">>,
                           <<"fs.access", "axios.get", "readJsonFile">>}
        /\ pc[c] \notin {"idle", "ready"} => Len(ops[c]) >= 1
        /\ Len(ops[c]) >= 2 => replies[c].probe # "none"
        /\ (HasGet(c) /\ HasRead(c)) => replies[c].fetch.kind # "none"
        /\ replies[c].fetch.kind # "none" => HasGet(c)
        /\ replies[c].read.kind # "none" => HasRead(c)

\* C15 witness: a finished call that performed all three operations, each
\* once, in the order probe, GET, file read.
C15_Witness ==
    \E c \in Calls :
        /\ pc[c] = "done"
        /\ OpNames(c) = <<"fs.access", "axios.get", "readJsonFile">>
        /\ replies[c].probe = "EACCES"
        /\ replies[c].fetch.kind = "rejected"
        /\ replies[c].read.kind = "rejected"

----------------------------------------------------------------------------
(* Fatal remote failures (checked under Spec)                              *)

\* The answer of the GET is one the catch block classifies: a refused
\* connection, an INVALID_SERVER_URL trigger, or a payload with a reason
FatalReply(r) ==
    \/ /\ r.kind = "rejected"
       /\ \/ r.err.code = Str("ECONNREFUSED")
          \/ r.err.code \in {Str("ERR_INVALID_URL"), Str("ENOTFOUND")}
          \/ r.err.status = 404
          \/ r.err.reason \notin {Undefined, << >>}
    \/ /\ r.kind = "resolved"
       /\ r.contentType # Undefined
       /\ ~includes(r.contentType, "application/json")

\* C16 (fatal means no fallback): when the remote failure is classified, the
\* error is raised to the caller, readJsonFile is never called and no second
\* request is sent; the file is read only when no fatal error was raised.
C16_FatalNoFallback ==
    \A c \in Calls :
        /\ FatalReply(replies[c].fetch)
              => /\ pc[c] = "done"
                 /\ outcome[c].kind = "thrown"
                 /\ outcome[c].err.code \in
                       {Str("SERVER_CONNECTION_REFUSED"), Str("INVALID_SERVER_URL"),
                        replies[c].fetch.err.reason}
                 /\ OpNames(c) = <<"fs.access", "axios.get">>
                 /\ replies[c].read.kind = "none"
        /\ HasRead(c) => ~FatalReply(replies[c].fetch)

\* C16 witness: the connection was refused and the call ended with
\* SERVER_CONNECTION_REFUSED after the probe and one GET, without a file read.
C16_Witness ==
    \E c \in Calls :
        /\ pc[c] = "done"
        /\ replies[c].fetch.err.code = Str("ECONNREFUSED")
        /\ outcome[c].kind = "thrown"
        /\ outcome[c].err.code = Str("SERVER_CONNECTION_REFUSED")
        /\ OpNames(c) = <<"fs.access", "axios.get">>

----------------------------------------------------------------------------
(* Content type of the response (checked under Spec)                       *)

\* The GET completed with a response whose content-type header does not
\* contain "application/json": another media type, or no header at all
NotJsonReply(r) ==
    /\ r.kind = "resolved"
    /\ \/ r.contentType = Undefined
       \/ ~includes(r.contentType, "application/json")

\* C17 (content-type validation), as claimed: such a response, a missing
\* header included, is an invalid-content-type failure: no transformer is
\* applied and the call fails with INVALID_SERVER_URL instead of returning a
\* document or reading the local file.
C17_ContentTypeValidation ==
    \A c \in Calls :
        NotJsonReply(replies[c].fetch)
            => /\ pc[c] = "done"
               /\ outcome[c].kind = "thrown"
               /\ outcome[c].err.code = Str("INVALID_SERVER_URL")
               /\ contents[c] = Null
               /\ ~HasRead(c)

----------------------------------------------------------------------------
(* Remote success (checked under Spec)                                     *)

\* The probe found no file, a token is present and the GET succeeded with a
\* JSON content type
RemoteSucceeded(c) ==
    /\ replies[c].probe \notin {"none", "ok"}
    /\ Truthy(args[c].accessToken)
    /\ replies[c].fetch.kind = "resolved"
    /\ replies[c].fetch.contentType # Undefined
    /\ includes(replies[c].fetch.contentType, "application/json")

\* The document the transformer of the call's resource type makes of the
\* payload
TransformedPayload(c) ==
    IF args[c].resourceType = "collection"
    THEN transformWorkspaceCollection(replies[c].fetch.data)
    ELSE transformWorkspaceEnvironment(replies[c].fetch.data)

\* The resource segment of the URL requested: ".../{segment}/{pathOrId}"
ResourceSegment(c) == ops[c][2].url[Len(ops[c][2].url) - 2]

\* The call returned the transformed payload, asked for the resource type's
\* URL and never called readJsonFile
ReturnedTransformed(c) ==
    /\ pc[c] = "done"
    /\ outcome[c] = Returned(TransformedPayload(c))
    /\ ResourceSegment(c) = args[c].resourceType
    /\ OpNames(c) = <<"fs.access", "axios.get">>

\* C18 (remote success), as claimed: whenever the probe finds no file, a
\* token is present and the GET succeeds with a JSON content type, the call
\* returns the transformer's result and readJsonFile is never called.
C18_RemoteSuccess ==
    \A c \in Calls : RemoteSucceeded(c) => ReturnedTransformed(c)

\* C18 amended: the same, provided the transformer returns a document for
\* the payload (it does not raise).
C18_RemoteSuccessAmended ==
    \A c \in Calls :
        (RemoteSucceeded(c) /\ ~TransformThrows(replies[c].fetch.data))
            => ReturnedTransformed(c)

\* C18 witness: an environment was fetched from the default server and the
\* call returned transformWorkspaceEnvironment(payload) without a file read.
C18_Witness ==
    \E c \in Calls :
        /\ RemoteSucceeded(c)
        /\ args[c].resourceType = "environment"
        /\ args[c].serverUrl = Undefined
        /\ pc[c] = "done"
        /\ outcome[c].doc = [shape |-> "Environment", content |-> "c2"]
        /\ ResourceSegment(c) = "environment"
        /\ ~HasRead(c)

----------------------------------------------------------------------------
(* Probe failures (checked under Spec)                                     *)

ProbeFailed(c) == replies[c].probe \in {"ENOENT", "EACCES", "EIO"}

\* C19 (probe never fails the call): however fs.access fails, nothing is
\* raised at the probe step and the call goes on as if the file did not
\* exist: fileExistsInPath is false, a supplied token leads to the GET, and
\* every readJsonFile call gets knownToExist = false.
C19_ProbeNeverFails ==
    \A c \in Calls :
        ProbeFailed(c)
            => /\ ~fileExistsInPath[c]
               /\ Len(ops[c]) >= 2
               /\ ops[c][2] =
                     IF Truthy(args[c].accessToken)
                     THEN GetOp(RequestUrl(args[c]), Authorization(args[c]))
                     ELSE ReadOp(args[c].pathOrId, FALSE)
               /\ \A i \in 1..Len(ops[c]) :
                     ops[c][i].op = "readJsonFile" => ~ops[c][i].known
               /\ outcome[c].kind = "thrown"
                     => \/ replies[c].fetch.kind # "none"
                        \/ replies[c].read.kind # "none"

\* C19 witness: the probe failed with a permission error and the call, which
\* has a token, is waiting for its GET with nothing raised.
C19_Witness ==
    \E c \in Calls :
        /\ replies[c].probe = "EACCES"
        /\ args[c].accessToken = Str("tok")
        /\ ~fileExistsInPath[c]
        /\ pc[c] = "fetching"
        /\ outcome[c] = Pending

----------------------------------------------------------------------------
(* Precedence of the classification (checked under Spec)                   *)

\* C20 (classification precedence): a failed fetch is classified by first
\* match, ECONNREFUSED, then the INVALID_SERVER_URL triggers, then the
\* payload reason: a refused connection gives SERVER_CONNECTION_REFUSED, a
\* 404 (also one carrying a reason), ERR_INVALID_URL or ENOTFOUND gives
\* INVALID_SERVER_URL with data = serverUrl, and the reason is the code only
\* when none of the earlier triggers holds.
C20_ClassificationPrecedence ==
    \A c \in Calls :
        replies[c].fetch.kind = "rejected"
            => LET e == replies[c].fetch.err
                   refused == e.code = Str("ECONNREFUSED")
                   invalid == \/ e.code \in {Str("ERR_INVALID_URL"), Str("ENOTFOUND")}
                              \/ e.status = 404
               IN /\ refused =>
                        outcome[c] = Thrown(error(Str("SERVER_CONNECTION_REFUSED"),
                                                  args[c].serverUrl))
                  /\ (~refused /\ invalid) =>
                        outcome[c] = Thrown(error(Str("INVALID_SERVER_URL"),
                                                  args[c].serverUrl))
                  /\ (outcome[c].kind = "thrown" /\ outcome[c].err.code = e.reason)
                        => (~refused /\ ~invalid)
                  /\ (~refused /\ ~invalid /\ e.reason \notin {Undefined, << >>})
                        => outcome[c].err.code = e.reason

\* C20 witness: a 404 whose payload carries TOKEN_EXPIRED failed with
\* INVALID_SERVER_URL and the server URL, not with the reason.
C20_Witness ==
    \E c \in Calls :
        /\ pc[c] = "done"
        /\ replies[c].fetch.err.status = 404
        /\ replies[c].fetch.err.reason = Str("TOKEN_EXPIRED")
        /\ outcome[c] = Thrown(error(Str("INVALID_SERVER_URL"),
                                     Str("http://localhost:3170")))

====
